---- MODULE Spec2Model ----
(***************************************************************************)
(* A model of ftzz's generator (src/src/generator.rs): option validation,  *)
(* the derivation of the per-directory parameters, the seeded sampling and *)
(* the recursive, concurrent construction of the directory tree, together  *)
(* with the filesystem it writes to and the exit status it reports.        *)
(***************************************************************************)
EXTENDS Integers, Sequences, FiniteSets, TLC

\* ------------------------------------------------------------------ bounds

MaxFiles == 2
MaxDepth == 2
MaxRatio == 2
MaxEntropy == 1
MaxFaults == 1
\* No directory is created, and no task spawned, once MaxNodes tasks exist.
MaxNodes == 3
\* The pseudo-random generator's state is reduced from 128 bits to SeedMod values.
SeedMod == 5
\* The hardware parallelism of the machine the generator runs on.
AvailableParallelism == 2
\* Validation alone is explored on file counts up to MaxThousands thousands
\* and a bit.
MaxThousands == 2

\* ------------------------------------------------------- program constants

\* f64 values are kept in fixed point, Scale units to one.
Scale == 100

\* exitcode::DATAERR, IOERR, SOFTWARE, OSERR as the code names them
DATAERR == "DATAERR"
IOERR == "IOERR"
SOFTWARE == "SOFTWARE"
OSERR == "OSERR"

\* the mean above which num_to_generate samples a log-normal distribution
LogNormalThreshold == 10000
\* the default ratio is num_files / DefaultRatioDivisor, at least 1
DefaultRatioDivisor == 1000

\* ---------------------------------------------------------------- helpers

Max(a, b) == IF a >= b THEN a ELSE b

RECURSIVE Pow(_, _)
Pow(b, e) == IF e = 0 THEN 1 ELSE b * Pow(b, e - 1)

\* ------------------------------------------------------------ file system

\* DirName with the ".dir" suffix left out: the name a file of the same
\* ordinal has.
DirName_unsuffixed(i) == <<i, "">>
\* A name is <<ordinal, suffix>>: format!("{}.dir", i) and i.to_string().
DirName(i) == <<i, ".dir">>
\* FileName with the loop's index left out of the name.
FileName_unnumbered(i) == <<0, "">>
FileName(i) == <<i, "">>
\* The entry a non-empty root holds before the run (tests/generator.rs: "file").
ExistingEntry == <<0, "file">>

\* A path is the sequence of names below root_dir; <<>> is root_dir itself.
Join(path, name) == Append(path, name)
Parent(path) == SubSeq(path, 1, Len(path) - 1)
IsDirEntry(path) == path = <<>> \/ path[Len(path)][2] = ".dir"
IsFileEntry(path) == path # <<>> /\ path[Len(path)][2] # ".dir"

\* The three roots the options may name.
RootStates == {"absent", "empty", "nonempty"}
InitialFs(rootPre) ==
    CASE rootPre = "absent" -> {}
      [] rootPre = "empty" -> {<<>>}
      [] OTHER -> {<<>>, <<ExistingEntry>>}

\* read_dir().count()
EntryCount(tree, path) == Cardinality({p \in tree : p # <<>> /\ Parent(p) = path})

\* ------------------------------------------------------ pseudo-random draws

Seeds == 0 .. (SeedMod - 1)

\* One step of the generator: the new state, which is also the word drawn.
next_u32(s) == (s + 1) % SeedMod

\* XorShiftRng::from_seed and seed_from_u64: the state a seed selects.
from_seed(seed) == seed % SeedMod
seed_from_u64(n) == n % SeedMod

\* The generator's state after the four draws of next_seed.
AfterNextSeed(s) == next_u32(next_u32(next_u32(next_u32(s))))

\* The sixteen bytes the four words make up, as the state they select.
SeedOfWords(s) ==
    LET w1 == next_u32(s)
        w2 == next_u32(w1)
        w3 == next_u32(w2)
        w4 == next_u32(w3)
    IN  (w1 + 2 * w2 + 3 * w3 + 5 * w4) % SeedMod

\* What a read of dead stack memory yields when it is not what was stored there.
GarbageSeed == SeedMod - 2

\* next_seed reads the four words through a pointer to a temporary array that
\* is dead when it is read: the bytes read are the words drawn, or whatever
\* the slot holds by then.
next_seed(s) == {SeedOfWords(s), GarbageSeed}

\* The standard normal deviate a drawn word stands for, in units of the standard deviation.
Deviates == <<0, -8, 3, -3, 0>>
StdNormal(word) == Deviates[(word % Len(Deviates)) + 1]

\* RoundAsUsize with the sign of the sample dropped, not clamped.
RoundAsUsize_unsigned(fifths) ==
    IF fifths <= 0 THEN (5 * Scale - 2 * fifths) \div (10 * Scale)
    ELSE (2 * fifths + 5 * Scale) \div (10 * Scale)

\* sample.round() as usize, the sample given in fifths of fixed-point units:
\* rounds half away from zero, saturates at 0.
RoundAsUsize(fifths) ==
    IF fifths <= 0 THEN 0 ELSE (2 * fifths + 5 * Scale) \div (10 * Scale)

\* num_to_generate: mean is this f64 in fixed point, s the generator's state.
\* Normal::new(mean, mean * 0.2): mean + 0.2 * mean * z = mean * (5 + z) / 5.
\* LogNormal::from_mean_cv(mean, 2.) is always positive: mean * 5^(z/2 - 1/2),
\* taken here at whole powers of 5.
num_to_generate(mean, s) ==
    LET z == StdNormal(next_u32(s))
    IN  IF mean > LogNormalThreshold * Scale
        THEN RoundAsUsize(IF z >= 3 THEN 25 * mean ELSE IF z >= 0 THEN 5 * mean ELSE mean)
        ELSE RoundAsUsize(mean * (5 + z))

\* ---------------------------------------------------------- configuration

\* Option<usize>: None is 0 (file_to_dir_ratio_parser admits no 0).
None == 0

\* 2f64.powf(num_dirs.log2() / max_depth) with num_dirs = num_files / ratio:
\* the max_depth-th root of num_files / ratio, in fixed point.
dirs_per_dir_of(num_files, ratio, max_depth) ==
    CHOOSE d \in 0 .. (Scale * num_files) :
        /\ Pow(d, max_depth) * ratio <= num_files * Pow(Scale, max_depth)
        /\ Pow(d + 1, max_depth) * ratio > num_files * Pow(Scale, max_depth)

\* ratio_of with the default rounded up: a started thousand counts as one.
ratio_of_rounded_up(options) ==
    IF options.file_to_dir_ratio = None
    THEN Max((options.num_files + DefaultRatioDivisor - 1) \div DefaultRatioDivisor, 1)
    ELSE options.file_to_dir_ratio

\* unwrap_or_else(|| max(num_files / 1000, 1))
ratio_of(options) ==
    IF options.file_to_dir_ratio = None
    THEN Max(options.num_files \div DefaultRatioDivisor, 1)
    ELSE options.file_to_dir_ratio

NoConfiguration ==
    [files |-> 0, files_per_dir |-> 0, dirs_per_dir |-> 0, max_depth |-> 0, entropy |-> 0]

Ok(config, tree) == [ok |-> TRUE, code |-> "none", config |-> config, tree |-> tree]
Err(code, tree) == [ok |-> FALSE, code |-> code, config |-> NoConfiguration, tree |-> tree]

\* The ratio check of validated_options.
ratio_too_large(options) == ratio_of(options) > options.num_files

\* flat_configuration with the ratio taken as files_per_dir, as at a depth
\* of 1 or more.
flat_configuration_by_ratio(options) ==
    [files |-> options.num_files,
     files_per_dir |-> ratio_of(options) * Scale,
     dirs_per_dir |-> 0,
     max_depth |-> 0,
     entropy |-> options.entropy]

\* The depth-0 return of validated_options.
flat_configuration(options) ==
    [files |-> options.num_files,
     files_per_dir |-> options.num_files * Scale,
     dirs_per_dir |-> 0,
     max_depth |-> 0,
     entropy |-> options.entropy]

\* The operations of validated_options the environment can fail on this tree:
\* create_dir_all returns Ok for a directory that exists.
validation_faults(tree) ==
    {"read_dir"} \cup (IF <<>> \in tree THEN {} ELSE {"create_dir_all"})

\* validated_options without the test that the root directory is empty.
validated_options_any_root(options, tree, fault) ==
    IF fault = "create_dir_all" THEN Err(IOERR, tree)
    ELSE
    LET made == tree \cup {<<>>}
    IN  IF fault = "read_dir" THEN Err(IOERR, made)
        ELSE IF options.max_depth = 0 THEN Ok(flat_configuration(options), made)
        ELSE IF ratio_too_large(options) THEN Err(DATAERR, made)
        ELSE Ok([files |-> options.num_files,
                 files_per_dir |-> ratio_of(options) * Scale,
                 dirs_per_dir |-> dirs_per_dir_of(options.num_files, ratio_of(options),
                                                  options.max_depth),
                 max_depth |-> options.max_depth,
                 entropy |-> options.entropy], made)

\* validated_options with create_dir in the place of create_dir_all: a root
\* that exists is an error.
validated_options_create_dir(options, tree, fault) ==
    IF fault = "create_dir_all" \/ <<>> \in tree THEN Err(IOERR, tree)
    ELSE
    LET made == tree \cup {<<>>}
    IN  IF fault = "read_dir" THEN Err(IOERR, made)
        ELSE IF EntryCount(made, <<>>) # 0 THEN Err(DATAERR, made)
        ELSE IF options.max_depth = 0 THEN Ok(flat_configuration(options), made)
        ELSE IF ratio_too_large(options) THEN Err(DATAERR, made)
        ELSE Ok([files |-> options.num_files,
                 files_per_dir |-> ratio_of(options) * Scale,
                 dirs_per_dir |-> dirs_per_dir_of(options.num_files, ratio_of(options),
                                                  options.max_depth),
                 max_depth |-> options.max_depth,
                 entropy |-> options.entropy], made)

\* validated_options on the tree the file system holds; fault names the
\* operation the environment fails ("none", "create_dir_all", "read_dir").
validated_options(options, tree, fault) ==
    IF fault = "create_dir_all" THEN Err(IOERR, tree)
    ELSE
    LET made == tree \cup {<<>>}
    IN  IF fault = "read_dir" THEN Err(IOERR, made)
        ELSE IF EntryCount(made, <<>>) # 0 THEN Err(DATAERR, made)
        ELSE IF options.max_depth = 0 THEN Ok(flat_configuration(options), made)
        ELSE IF ratio_too_large(options) THEN Err(DATAERR, made)
        ELSE Ok([files |-> options.num_files,
                 files_per_dir |-> ratio_of(options) * Scale,
                 dirs_per_dir |-> dirs_per_dir_of(options.num_files, ratio_of(options),
                                                  options.max_depth),
                 max_depth |-> options.max_depth,
                 entropy |-> options.entropy], made)

\* From<Configuration> for GeneratorState: the u64 the first generator is seeded with.
starting_u64(config) ==
    (((config.files + config.max_depth) * (config.files_per_dir + config.dirs_per_dir))
        \div Scale) + config.entropy

\* GeneratorState, root_dir being the node's place in the tree.
GeneratorState(config, seed) ==
    [files_per_dir |-> config.files_per_dir,
     dirs_per_dir |-> config.dirs_per_dir,
     max_depth |-> config.max_depth,
     seed |-> seed]

\* next with the remaining depth handed on as it is.
next_undecremented(state, seed) == [state EXCEPT !.seed = seed]

\* next with the remaining depth taken down by two.
next_decremented_twice(state, seed) ==
    [state EXCEPT !.seed = seed, !.max_depth = state.max_depth - 2]

\* GeneratorState::next
next(state, seed) == [state EXCEPT !.seed = seed, !.max_depth = state.max_depth - 1]

\* ------------------------------------------------------------------ state

VARIABLES
    options,    \* Generate: the options given, until validated_options consumes them
    config,     \* Configuration: what validated_options returned
    given,      \* the options as given, kept for a second run
    fs,         \* the paths that exist, below and including root_dir
    main,       \* where generate() is: "start", "running", "exited"
    exit,       \* what generate() returned: [kind, code, stats]
    tasks,      \* the node tasks spawned so far, by their place in the tree
    faults,     \* failures of the environment so far
    run,        \* 1 in the first run of these options, 2 in the second
    first       \* the tree the first run left, once a second run has started

vars == <<options, config, given, fs, main, exit, tasks, faults, run, first>>

\* A node is named by the ordinals of the directories that lead to it.
Root == <<>>
RECURSIVE DirPath(_)
DirPath(n) == IF n = <<>> THEN <<>> ELSE Append(DirPath(Parent(n)), DirName(n[Len(n)]))

NoStats == [files |-> 0, dirs |-> 0]
NoResult == [kind |-> "none", code |-> "none", stats |-> NoStats]
OkResult(stats) == [kind |-> "ok", code |-> "none", stats |-> stats]
ErrResult(code) == [kind |-> "err", code |-> code, stats |-> NoStats]
\* What a JoinHandle yields for a task that panicked: a JoinError.
JoinError == [kind |-> "joinerror", code |-> "none", stats |-> NoStats]

\* add_assign with rhs.files added to both fields.
add_assign_files_twice(stats, rhs) ==
    [files |-> stats.files + rhs.files, dirs |-> stats.dirs + rhs.files]

\* add_assign with the dirs of rhs left out.
add_assign_files_only(stats, rhs) ==
    [files |-> stats.files + rhs.files, dirs |-> stats.dirs]

\* AddAssign for GeneratorStats
add_assign(stats, rhs) ==
    [files |-> stats.files + rhs.files, dirs |-> stats.dirs + rhs.dirs]

\* spawn_run_generator_async: a task that has not been polled yet.  `blame` is
\* history: the node whose failure this task's error comes from.
spawn_run_generator_async(state) ==
    [state |-> state,
     pc |-> "spawned",
     random |-> 0,
     num_files |-> 0,
     num_dirs |-> 0,
     dirs_done |-> 0,
     files_done |-> 0,
     closure |-> "none",
     dir_tasks |-> {},
     stats |-> NoStats,
     result |-> NoResult,
     blame |-> <<>>]

\* The runtime polls tasks while block_on is waiting for the root's future.
RuntimeAlive == main = "running" /\ tasks[Root].pc # "done"

CanFail == faults < MaxFaults

\* Generate
OptionSets ==
    [num_files : 1 .. MaxFiles,
     max_depth : 0 .. MaxDepth,
     file_to_dir_ratio : {None} \cup (1 .. MaxRatio),
     entropy : 0 .. MaxEntropy]

\* The options once validated_options has taken them.
Moved == [num_files |-> 0, max_depth |-> 0, file_to_dir_ratio |-> None, entropy |-> 0]

Init ==
    /\ options \in OptionSets
    /\ config = NoConfiguration
    /\ given = Moved
    /\ \E rootPre \in RootStates : fs = InitialFs(rootPre)
    /\ main = "start"
    /\ exit = NoResult
    /\ tasks = <<>>
    /\ faults = 0
    /\ run = 1
    /\ first = {}

\* ---------------------------------------------------------------- actions

\* generate(), up to block_on: validated_options, then run_generator builds the
\* runtime and the starting state and hands the root's future to the runtime.
generate ==
    /\ main = "start"
    /\ \E fault \in {"none", "runtime"} \cup validation_faults(fs) :
         LET v == validated_options(options, fs, fault)
         IN  /\ fault # "none" => CanFail
             /\ fault = "runtime" => v.ok
             /\ faults' = IF fault = "none" THEN faults ELSE faults + 1
             /\ fs' = v.tree
             /\ IF ~v.ok
                THEN /\ main' = "exited"
                     /\ exit' = ErrResult(v.code)
                     /\ UNCHANGED tasks
                ELSE IF fault = "runtime"
                THEN /\ main' = "exited"
                     /\ exit' = ErrResult(OSERR)
                     /\ UNCHANGED tasks
                ELSE \E seed \in next_seed(seed_from_u64(starting_u64(v.config))) :
                     /\ main' = "running"
                     /\ tasks' = (Root :> spawn_run_generator_async(
                                               GeneratorState(v.config, seed)))
                     /\ UNCHANGED exit
             /\ config' = v.config
    /\ options' = Moved
    /\ UNCHANGED <<given, run, first>>

\* num_dirs_to_generate without the test of the remaining depth.
num_dirs_to_generate_unguarded(state, random) ==
    num_to_generate(state.dirs_per_dir, random)

\* num_dirs_to_generate of run_generator_async
num_dirs_to_generate(state, random) ==
    IF state.max_depth = 0 THEN 0 ELSE num_to_generate(state.dirs_per_dir, random)

\* sample with one generator for the whole tree: a task other than the root
\* draws its counts from its parent's generator and advances it.
sample_shared(n) ==
    /\ RuntimeAlive
    /\ tasks[n].pc = "spawned"
    /\ LET t == tasks[n]
           r0 == IF n = Root THEN from_seed(t.state.seed) ELSE tasks[Parent(n)].random
           r1 == next_u32(r0)
           nd == num_dirs_to_generate(t.state, r1)
           r2 == IF t.state.max_depth = 0 THEN r1 ELSE next_u32(r1)
           sampled == [t EXCEPT !.pc = "blocking",
                                !.closure = "running",
                                !.num_files = num_to_generate(t.state.files_per_dir, r0),
                                !.num_dirs = nd,
                                !.random = r2]
       IN  tasks' = IF n = Root
                    THEN [tasks EXCEPT ![n] = sampled]
                    ELSE [tasks EXCEPT ![n] = sampled, ![Parent(n)].random = r2]
    /\ UNCHANGED <<options, config, given, fs, main, exit, faults, run, first>>

\* run_generator_async, first poll: seed the generator, sample the two counts,
\* start the blocking closure.
sample(n) ==
    /\ RuntimeAlive
    /\ tasks[n].pc = "spawned"
    /\ LET t == tasks[n]
           r0 == from_seed(t.state.seed)
           r1 == next_u32(r0)
           nd == num_dirs_to_generate(t.state, r1)
       IN  tasks' = [tasks EXCEPT ![n] =
               [t EXCEPT !.pc = "blocking",
                         !.closure = "running",
                         !.num_files = num_to_generate(t.state.files_per_dir, r0),
                         !.num_dirs = nd,
                         !.random = IF t.state.max_depth = 0 THEN r1 ELSE next_u32(r1)]]
    /\ UNCHANGED <<options, config, given, fs, main, exit, faults, run, first>>

\* std::fs::create_dir succeeds when the parent exists and the path does not.
create_dir_ok(tree, path) == Parent(path) \in tree /\ path \notin tree
\* File::create succeeds when the parent exists and the path is no directory.
file_create_ok(tree, path) == Parent(path) \in tree

\* create_dir with the child task spawned for a directory that is not made.
create_dir_unmade(n) ==
    /\ tasks[n].pc = "blocking"
    /\ tasks[n].closure = "running"
    /\ tasks[n].dirs_done < tasks[n].num_dirs
    /\ LET t == tasks[n]
           i == t.dirs_done
       IN  /\ Cardinality(DOMAIN tasks) < MaxNodes
           /\ \E seed \in next_seed(t.random) :
                tasks' = (Append(n, i) :> spawn_run_generator_async(next(t.state, seed)))
                         @@ [tasks EXCEPT ![n] =
                               [t EXCEPT !.dirs_done = i + 1,
                                         !.random = AfterNextSeed(t.random),
                                         !.dir_tasks = t.dir_tasks \cup {i}]]
    /\ UNCHANGED <<options, config, given, fs, main, exit, faults, run, first>>

\* create_dir with the creation tried again after it has failed.
create_dir_retried(n) ==
    /\ tasks[n].pc = "blocking"
    /\ tasks[n].closure \in {"running", IOERR}
    /\ tasks[n].dirs_done < tasks[n].num_dirs
    /\ LET t == tasks[n]
           i == t.dirs_done
           dir == Join(DirPath(n), DirName(i))
       IN  \/ /\ create_dir_ok(fs, dir)
              /\ Cardinality(DOMAIN tasks) < MaxNodes
              /\ fs' = fs \cup {dir}
              /\ \E seed \in next_seed(t.random) :
                   tasks' = (Append(n, i) :> spawn_run_generator_async(next(t.state, seed)))
                            @@ [tasks EXCEPT ![n] =
                                  [t EXCEPT !.dirs_done = i + 1,
                                            !.random = AfterNextSeed(t.random),
                                            !.dir_tasks = t.dir_tasks \cup {i}]]
              /\ UNCHANGED faults
           \/ /\ t.closure = "running"
              /\ CanFail \/ ~create_dir_ok(fs, dir)
              /\ faults' = IF create_dir_ok(fs, dir) THEN faults + 1 ELSE faults
              /\ tasks' = [tasks EXCEPT ![n] =
                              [t EXCEPT !.closure = IOERR, !.dir_tasks = {}]]
              /\ UNCHANGED fs
    /\ UNCHANGED <<options, config, given, main, exit, run, first>>

\* The closure's first loop, one iteration: create "<i>.dir" and spawn its task.
create_dir(n) ==
    /\ tasks[n].pc = "blocking"
    /\ tasks[n].closure = "running"
    /\ tasks[n].dirs_done < tasks[n].num_dirs
    /\ LET t == tasks[n]
           i == t.dirs_done
           dir == Join(DirPath(n), DirName(i))
       IN  \/ /\ create_dir_ok(fs, dir)
              /\ Cardinality(DOMAIN tasks) < MaxNodes
              /\ fs' = fs \cup {dir}
              /\ \E seed \in next_seed(t.random) :
                   tasks' = (Append(n, i) :> spawn_run_generator_async(next(t.state, seed)))
                            @@ [tasks EXCEPT ![n] =
                                  [t EXCEPT !.dirs_done = i + 1,
                                            !.random = AfterNextSeed(t.random),
                                            !.dir_tasks = t.dir_tasks \cup {i}]]
              /\ UNCHANGED faults
           \/ /\ CanFail \/ ~create_dir_ok(fs, dir)
              /\ faults' = IF create_dir_ok(fs, dir) THEN faults + 1 ELSE faults
              /\ tasks' = [tasks EXCEPT ![n] =
                              [t EXCEPT !.closure = IOERR, !.dir_tasks = {}]]
              /\ UNCHANGED fs
    /\ UNCHANGED <<options, config, given, main, exit, run, first>>

\* create_file with the file loop free to run before the directory loop has
\* come to its end.
create_file_first(n) ==
    /\ tasks[n].pc = "blocking"
    /\ tasks[n].closure = "running"
    /\ tasks[n].files_done < tasks[n].num_files
    /\ LET t == tasks[n]
           file(i) == Join(DirPath(n), FileName(i))
       IN  \E upto \in t.files_done .. t.num_files :
             /\ \A i \in t.files_done .. (upto - 1) : file_create_ok(fs, file(i))
             /\ fs' = fs \cup {file(i) : i \in t.files_done .. (upto - 1)}
             /\ IF upto = t.num_files
                THEN /\ tasks' = [tasks EXCEPT ![n] = [t EXCEPT !.files_done = upto]]
                     /\ UNCHANGED faults
                ELSE /\ CanFail \/ ~file_create_ok(fs, file(upto))
                     /\ faults' = IF file_create_ok(fs, file(upto)) THEN faults + 1 ELSE faults
                     /\ tasks' = [tasks EXCEPT ![n] =
                                     [t EXCEPT !.files_done = upto,
                                               !.closure = IOERR,
                                               !.dir_tasks = {}]]
    /\ UNCHANGED <<options, config, given, main, exit, run, first>>

\* The closure's second loop: the files "<i>" are created in order, up to the
\* first File::create that fails; `upto` is how many are created.
create_file(n) ==
    /\ tasks[n].pc = "blocking"
    /\ tasks[n].closure = "running"
    /\ tasks[n].dirs_done = tasks[n].num_dirs
    /\ tasks[n].files_done < tasks[n].num_files
    /\ LET t == tasks[n]
           file(i) == Join(DirPath(n), FileName(i))
       IN  \E upto \in t.files_done .. t.num_files :
             /\ \A i \in t.files_done .. (upto - 1) : file_create_ok(fs, file(i))
             /\ fs' = fs \cup {file(i) : i \in t.files_done .. (upto - 1)}
             /\ IF upto = t.num_files
                THEN /\ tasks' = [tasks EXCEPT ![n] = [t EXCEPT !.files_done = upto]]
                     /\ UNCHANGED faults
                ELSE /\ CanFail \/ ~file_create_ok(fs, file(upto))
                     /\ faults' = IF file_create_ok(fs, file(upto)) THEN faults + 1 ELSE faults
                     /\ tasks' = [tasks EXCEPT ![n] =
                                     [t EXCEPT !.files_done = upto,
                                               !.closure = IOERR,
                                               !.dir_tasks = {}]]
    /\ UNCHANGED <<options, config, given, main, exit, run, first>>

\* The blocking closure panics: its JoinHandle will yield a JoinError.
closure_panic(n) ==
    /\ tasks[n].pc = "blocking"
    /\ tasks[n].closure = "running"
    /\ CanFail
    /\ faults' = faults + 1
    /\ tasks' = [tasks EXCEPT ![n] = [tasks[n] EXCEPT !.closure = "panicked", !.dir_tasks = {}]]
    /\ UNCHANGED <<options, config, given, fs, main, exit, run, first>>

\* The closure has come to its end: by an error, a panic, or the end of both loops.
ClosureReturned(t) ==
    \/ t.closure \in {IOERR, "panicked"}
    \/ t.closure = "running" /\ t.dirs_done = t.num_dirs /\ t.files_done = t.num_files

\* after_blocking that returns the node's own counts without a look at the
\* child tasks the closure handed back.
after_blocking_unawaited(t) ==
    IF t.closure = "panicked" THEN ErrResult(SOFTWARE)
    ELSE IF t.closure # "running" THEN ErrResult(t.closure)
    ELSE OkResult([files |-> t.num_files, dirs |-> t.num_dirs])

\* after_blocking that goes on to the await loop whatever the closure handed
\* back, and leaves the loop only through a child's result.
after_blocking_waits(t) ==
    IF t.closure = "panicked" THEN ErrResult(SOFTWARE)
    ELSE IF t.closure # "running" THEN ErrResult(t.closure)
    ELSE NoResult

\* What `spawn_blocking(..).await.with_context(..).with_code(SOFTWARE)??` leaves:
\* the task's result when it returns here, NoResult when it goes on.
after_blocking(t) ==
    IF t.closure = "panicked" THEN ErrResult(SOFTWARE)
    ELSE IF t.closure # "running" THEN ErrResult(t.closure)
    ELSE IF t.dir_tasks = {}
         THEN OkResult([files |-> t.num_files, dirs |-> t.num_dirs])
         ELSE NoResult

\* run_generator_async, the poll after the closure has returned.
await_blocking(n) ==
    /\ RuntimeAlive
    /\ tasks[n].pc = "blocking"
    /\ ClosureReturned(tasks[n])
    /\ LET t == tasks[n]
           r == after_blocking(t)
       IN  tasks' = [tasks EXCEPT ![n] =
               [t EXCEPT !.closure = IF t.closure = "running" THEN "ok" ELSE t.closure,
                         !.stats = [files |-> t.num_files, dirs |-> t.num_dirs],
                         !.pc = IF r.kind = "none" THEN "awaiting" ELSE "done",
                         !.result = r,
                         !.blame = n]]
    /\ UNCHANGED <<options, config, given, fs, main, exit, faults, run, first>>

\* child_error with only the JoinError looked at: a child's own error is dropped.
child_error_swallowed(joined) ==
    IF joined.kind = "joinerror" THEN ErrResult(SOFTWARE) ELSE NoResult

\* child_error with with_code(SOFTWARE) applied to the child's own error too.
child_error_reclassified(joined) ==
    IF joined.kind \in {"joinerror", "err"} THEN ErrResult(SOFTWARE) ELSE NoResult

\* What `stats += task.with_context(..).with_code(SOFTWARE)??` makes of the
\* result a child's JoinHandle yields: the error the loop returns, or NoResult.
child_error(joined) ==
    IF joined.kind = "joinerror" THEN ErrResult(SOFTWARE)
    ELSE IF joined.kind = "err" THEN ErrResult(joined.code)
    ELSE NoResult

\* The while-let loop, one iteration: a child that has completed is taken from
\* the FuturesUnordered, in whatever order the children complete.
await_child(n, c) ==
    /\ RuntimeAlive
    /\ tasks[n].pc = "awaiting"
    /\ c \in tasks[n].dir_tasks
    /\ tasks[Append(n, c)].pc = "done"
    /\ LET t == tasks[n]
           child == tasks[Append(n, c)]
           joined == child.result
           e == child_error(joined)
           left == t.dir_tasks \ {c}
           sum == add_assign(t.stats, joined.stats)
       IN  tasks' = [tasks EXCEPT ![n] =
               IF e.kind # "none"
               THEN [t EXCEPT !.pc = "done", !.result = e, !.dir_tasks = {},
                              !.blame = IF joined.kind = "joinerror"
                                        THEN Append(n, c) ELSE child.blame]
               ELSE [t EXCEPT !.stats = sum,
                              !.dir_tasks = left,
                              !.pc = IF left = {} THEN "done" ELSE "awaiting",
                              !.result = IF left = {} THEN OkResult(sum) ELSE NoResult]]
    /\ UNCHANGED <<options, config, given, fs, main, exit, faults, run, first>>

\* A spawned task panics before it completes: its JoinHandle yields a JoinError.
task_panic(n) ==
    /\ RuntimeAlive
    /\ n # Root
    /\ tasks[n].pc \in {"spawned", "awaiting"}
    /\ CanFail
    /\ faults' = faults + 1
    /\ tasks' = [tasks EXCEPT ![n] =
                    [tasks[n] EXCEPT !.pc = "done", !.result = JoinError, !.dir_tasks = {}]]
    /\ UNCHANGED <<options, config, given, fs, main, exit, run, first>>

ClosureRunning(t) == t.pc = "blocking" /\ ~ClosureReturned(t)

\* block_on returns the root's result; dropping the runtime waits for the
\* blocking closures that are still running; generate() returns.
block_on_return ==
    /\ main = "running"
    /\ tasks[Root].pc = "done"
    /\ \A n \in DOMAIN tasks : ~ClosureRunning(tasks[n])
    /\ main' = "exited"
    /\ exit' = tasks[Root].result
    /\ UNCHANGED <<options, config, given, fs, tasks, faults, run, first>>

\* A second, independent run of the same options on a root in the state the
\* first run found it in (a test that compares a run with a recorded one).
rerun ==
    /\ main = "exited"
    /\ exit.kind = "ok"
    /\ run = 1
    /\ run' = 2
    /\ first' = fs
    /\ fs' = InitialFs("empty")
    /\ main' = "start"
    /\ exit' = NoResult
    /\ tasks' = <<>>
    /\ options' = given
    /\ config' = NoConfiguration
    /\ UNCHANGED <<given, faults>>

Nodes == DOMAIN tasks

Next ==
    \/ generate
    \/ \E n \in Nodes : sample(n)
    \/ \E n \in Nodes : create_dir(n)
    \/ \E n \in Nodes : create_file(n)
    \/ \E n \in Nodes : closure_panic(n)
    \/ \E n \in Nodes : await_blocking(n)
    \/ \E n \in Nodes : \E c \in tasks[n].dir_tasks : await_child(n, c)
    \/ \E n \in Nodes : task_panic(n)
    \/ block_on_return

Spec == Init /\ [][Next]_vars

\* The runtime polls every task that is ready and the blocking pool runs every
\* closure handed to it: a step that can be taken is taken in the end.
SpecFair == Init /\ [][Next]_vars /\ WF_vars(Next)

\* The numbers of files around the multiples of the default ratio's divisor.
FileCounts ==
    {k * DefaultRatioDivisor + d :
        k \in 0 .. MaxThousands, d \in {0, 1, DefaultRatioDivisor - 1}} \ {0}

\* The depths validation alone is explored on: the flat tree and one depth
\* above 0 (validated_options tells apart 0 and the rest; at depth 2 the root
\* that dirs_per_dir_of searches for stays small).
ValidateDepths == {0, 2}

\* generate() up to the start of the generator, on options with file counts
\* in the thousands.
InitValidate ==
    /\ options \in [num_files : FileCounts,
                    max_depth : ValidateDepths,
                    file_to_dir_ratio : {None} \cup (1 .. MaxRatio),
                    entropy : 0 .. MaxEntropy]
    /\ config = NoConfiguration
    /\ given = Moved
    /\ \E rootPre \in RootStates : fs = InitialFs(rootPre)
    /\ main = "start"
    /\ exit = NoResult
    /\ tasks = <<>>
    /\ faults = 0
    /\ run = 1
    /\ first = {}

NextValidate == generate

SpecValidate == InitValidate /\ [][NextValidate]_vars

NextRerun == Next \/ rerun

\* Runs whose options are kept for a second run.
InitRerun ==
    /\ options \in OptionSets
    /\ config = NoConfiguration
    /\ given = options
    /\ fs = InitialFs("empty")
    /\ main = "start"
    /\ exit = NoResult
    /\ tasks = <<>>
    /\ faults = 0
    /\ run = 1
    /\ first = {}

SpecRerun == InitRerun /\ [][NextRerun]_vars

\* ------------------------------------------------- exact file count mode
\* The generator under files_exact (GeneratorBuilder::files_exact), which the
\* generator.rs at hand does not have: after spec.md 4.5.  The root is given
\* the whole target as its budget; a node takes its share of the budget and
\* hands what is left to the subdirectories it creates.

Min(a, b) == IF a <= b THEN a ELSE b

\* exact_files that keeps the sample whatever the budget.
exact_files_sampled(budget, sampled, num_dirs) == sampled

\* The files a node creates: the last node along a path (one that creates no
\* subdirectory) takes what remains of the budget, any other node its sample,
\* clamped to the budget.
exact_files(budget, sampled, num_dirs) ==
    IF num_dirs = 0 THEN budget ELSE Min(sampled, budget)

\* The part of `remaining` handed to subdirectory i of k: an even part, the
\* last subdirectory taking the rounding remainder too.
share(remaining, k, i) ==
    IF i = k - 1 THEN remaining - (k - 1) * (remaining \div k) ELSE remaining \div k

\* A GeneratorState with the budget of its subtree.
WithBudget(state, budget) == [files_budget |-> budget] @@ state

\* generate() under files_exact: as generate, the root holding the target.
generate_exact ==
    /\ main = "start"
    /\ \E fault \in {"none", "runtime"} \cup validation_faults(fs) :
         LET v == validated_options(options, fs, fault)
         IN  /\ fault # "none" => CanFail
             /\ fault = "runtime" => v.ok
             /\ faults' = IF fault = "none" THEN faults ELSE faults + 1
             /\ fs' = v.tree
             /\ IF ~v.ok
                THEN /\ main' = "exited"
                     /\ exit' = ErrResult(v.code)
                     /\ UNCHANGED tasks
                ELSE IF fault = "runtime"
                THEN /\ main' = "exited"
                     /\ exit' = ErrResult(OSERR)
                     /\ UNCHANGED tasks
                ELSE \E seed \in next_seed(seed_from_u64(starting_u64(v.config))) :
                     /\ main' = "running"
                     /\ tasks' = (Root :> spawn_run_generator_async(
                                     WithBudget(GeneratorState(v.config, seed), v.config.files)))
                     /\ UNCHANGED exit
             /\ config' = v.config
    /\ options' = Moved
    /\ UNCHANGED <<given, run, first>>

\* The first poll under files_exact: as sample, the file count reconciled
\* with the budget.
sample_exact(n) ==
    /\ RuntimeAlive
    /\ tasks[n].pc = "spawned"
    /\ LET t == tasks[n]
           r0 == from_seed(t.state.seed)
           r1 == next_u32(r0)
           nd == num_dirs_to_generate(t.state, r1)
           nf == exact_files(t.state.files_budget,
                             num_to_generate(t.state.files_per_dir, r0), nd)
       IN  tasks' = [tasks EXCEPT ![n] =
               [t EXCEPT !.pc = "blocking",
                         !.closure = "running",
                         !.num_files = nf,
                         !.num_dirs = nd,
                         !.random = IF t.state.max_depth = 0 THEN r1 ELSE next_u32(r1)]]
    /\ UNCHANGED <<options, config, given, fs, main, exit, faults, run, first>>

\* The closure's first loop under files_exact: as create_dir, the child given
\* its share of what the node did not take.
create_dir_exact(n) ==
    /\ tasks[n].pc = "blocking"
    /\ tasks[n].closure = "running"
    /\ tasks[n].dirs_done < tasks[n].num_dirs
    /\ LET t == tasks[n]
           i == t.dirs_done
           dir == Join(DirPath(n), DirName(i))
           part == share(t.state.files_budget - t.num_files, t.num_dirs, i)
       IN  \/ /\ create_dir_ok(fs, dir)
              /\ Cardinality(DOMAIN tasks) < MaxNodes
              /\ fs' = fs \cup {dir}
              /\ \E seed \in next_seed(t.random) :
                   tasks' = (Append(n, i) :> spawn_run_generator_async(
                                 [next(t.state, seed) EXCEPT !.files_budget = part]))
                            @@ [tasks EXCEPT ![n] =
                                  [t EXCEPT !.dirs_done = i + 1,
                                            !.random = AfterNextSeed(t.random),
                                            !.dir_tasks = t.dir_tasks \cup {i}]]
              /\ UNCHANGED faults
           \/ /\ CanFail \/ ~create_dir_ok(fs, dir)
              /\ faults' = IF create_dir_ok(fs, dir) THEN faults + 1 ELSE faults
              /\ tasks' = [tasks EXCEPT ![n] =
                              [t EXCEPT !.closure = IOERR, !.dir_tasks = {}]]
              /\ UNCHANGED fs
    /\ UNCHANGED <<options, config, given, main, exit, run, first>>

NextExact ==
    \/ generate_exact
    \/ \E n \in Nodes : sample_exact(n)
    \/ \E n \in Nodes : create_dir_exact(n)
    \/ \E n \in Nodes : create_file(n)
    \/ \E n \in Nodes : closure_panic(n)
    \/ \E n \in Nodes : await_blocking(n)
    \/ \E n \in Nodes : \E c \in tasks[n].dir_tasks : await_child(n, c)
    \/ \E n \in Nodes : task_panic(n)
    \/ block_on_return

SpecExact == Init /\ [][NextExact]_vars

\* ----------------------------------------------------------------- claims

\* The directories of the tree, the root excluded.
Dirs == {p \in fs : p # <<>> /\ IsDirEntry(p)}
Files == {p \in fs : IsFileEntry(p)}
Children(n) == {m \in Nodes : m # <<>> /\ Parent(m) = n}

\* C1 -- Depth bound: in every reachable state, whatever the interleaving of
\* the node tasks, every directory that exists lies at most max_depth levels
\* below the root and every task sits at the level its remaining depth
\* tells; a node whose remaining depth is 0 samples zero subdirectories,
\* creates none and has spawned no child task.
C1_DepthBound ==
    /\ \A p \in Dirs : Len(p) <= config.max_depth
    /\ \A n \in Nodes :
          /\ tasks[n].state.max_depth = config.max_depth - Len(n)
          /\ tasks[n].state.max_depth >= 0
          /\ tasks[n].state.max_depth = 0 =>
                /\ tasks[n].num_dirs = 0
                /\ tasks[n].dirs_done = 0
                /\ Children(n) = {}
                /\ ~\E p \in Dirs : Parent(p) = DirPath(n)

\* A run of depth at least 2 has finished a node at the last level: its
\* directory exists max_depth levels below the root, and it has created
\* files but no directory.
C1_Witness ==
    \E n \in Nodes :
        /\ config.max_depth >= 2
        /\ Len(n) = config.max_depth
        /\ DirPath(n) \in fs
        /\ tasks[n].pc = "done"
        /\ tasks[n].result.kind = "ok"
        /\ tasks[n].num_files > 0

\* A failure has happened: the environment failed an operation, a closure
\* returned an error or panicked, or a task ended in an error or a panic.
Failed(n) ==
    \/ tasks[n].closure \in {IOERR, "panicked"}
    \/ tasks[n].result.kind \in {"err", "joinerror"}
AnyFailure == faults > 0 \/ \E n \in Nodes : Failed(n)

\* C5 -- No partial success: once any directory or file creation has failed at
\* any node, or any task or closure has panicked, the root task never
\* completes with statistics and generate() returns an error that carries no
\* GeneratorStats; a root that completed with statistics has seen every node
\* of the tree complete without failure.
C5_NoPartialSuccess ==
    /\ (main = "exited" /\ AnyFailure) => (exit.kind = "err" /\ exit.stats = NoStats)
    /\ (Root \in Nodes /\ tasks[Root].pc = "done" /\ AnyFailure) =>
          tasks[Root].result.kind = "err"
    /\ (Root \in Nodes /\ tasks[Root].result.kind = "ok") =>
          \A n \in Nodes : tasks[n].pc = "done" /\ tasks[n].result.kind = "ok"

\* A task two levels below the root panicked, and generate() has returned the
\* error its parent made of the JoinError.
C5_Witness ==
    /\ main = "exited"
    /\ exit = ErrResult(SOFTWARE)
    /\ \E n \in Nodes :
          /\ Len(n) = 2
          /\ tasks[n].result.kind = "joinerror"
          /\ tasks[Root].blame = n

\* The exit status the failure of node o stands for.
ClassOf(o) ==
    IF tasks[o].result.kind = "joinerror" \/ tasks[o].closure = "panicked" THEN SOFTWARE
    ELSE IF tasks[o].closure = IOERR THEN IOERR
    ELSE "none"

\* C9 -- The failure classes stay distinct up to the caller: an error a task
\* returns carries the status of the failure it comes from, at whatever depth
\* that happened (IOERR for a failed directory or file creation, SOFTWARE for
\* a task or closure whose result cannot be retrieved); generate() returns
\* the root task's error unchanged; a failure of validation returns DATAERR
\* exactly when the options are at fault and not the environment.
C9_ClassesDistinct ==
    /\ \A n \in Nodes :
          tasks[n].result.kind = "err" =>
              /\ tasks[n].result.code \in {IOERR, SOFTWARE}
              /\ tasks[n].result.code = ClassOf(tasks[n].blame)
    /\ (main = "exited" /\ exit.kind = "err") =>
          IF Root \in Nodes
          THEN exit = tasks[Root].result
          ELSE /\ exit.code \in {DATAERR, IOERR, OSERR}
               /\ exit.code = DATAERR <=> faults = 0

\* A file or directory creation failed two levels below the root and
\* generate() has returned IOERR, the error having passed two ancestors.
C9_Witness ==
    /\ main = "exited"
    /\ exit = ErrResult(IOERR)
    /\ Root \in Nodes
    /\ Len(tasks[Root].blame) = 2
    /\ tasks[tasks[Root].blame].closure = IOERR

\* generate() is called on a root directory that exists and holds an entry.
NonEmptyRootGiven == main = "start" /\ EntryCount(fs, <<>>) # 0

\* C6 (as the claim states it) -- generating into a directory that holds an
\* entry always fails with the configuration error DATAERR and changes nothing
\* on the file system.
C6_AlwaysConfigurationError ==
    [][NonEmptyRootGiven =>
          /\ main' = "exited"
          /\ exit' = ErrResult(DATAERR)
          /\ fs' = fs]_vars

\* C6 (amended) -- generating into a directory that holds an entry always
\* fails, whatever the max depth and the ratio, no task is spawned and nothing
\* is created, removed or changed on the file system; the error is the
\* configuration error DATAERR when the directory's entries can be read, and
\* IOERR when reading them fails.
C6_NonEmptyRootRejected ==
    [][NonEmptyRootGiven =>
          /\ main' = "exited"
          /\ exit'.kind = "err"
          /\ exit'.code = (IF faults' = faults THEN DATAERR ELSE IOERR)
          /\ tasks' = <<>>
          /\ fs' = fs]_vars

\* generate() has returned DATAERR for a root that holds an entry.
C6_Witness ==
    /\ main = "exited"
    /\ exit = ErrResult(DATAERR)
    /\ EntryCount(fs, <<>>) # 0
    /\ faults = 0
    /\ tasks = <<>>

\* The options name a ratio greater than the number of files.
RatioTooLargeGiven ==
    /\ main = "start"
    /\ options.file_to_dir_ratio # None
    /\ options.file_to_dir_ratio > options.num_files

\* C7 -- Ratio validation: options whose file-to-dir ratio is greater than the
\* number of files are always refused, for every max depth, 0 included:
\* generate() returns an error and no task is spawned.
C7_RatioAlwaysRefused ==
    [][RatioTooLargeGiven => (main' = "exited" /\ exit'.kind = "err" /\ tasks' = <<>>)]_vars

\* C8 -- Configuration errors come before any file system mutation: when
\* generate() refuses a ratio greater than the number of files, the file
\* system is as it was; a root directory that did not exist does not exist.
C8_NoMutationBeforeRefusal ==
    [][(RatioTooLargeGiven /\ main' = "exited" /\ exit'.code = DATAERR) => fs' = fs]_vars

\* generate() has returned statistics for num_files = 1 and max_depth = 0.
OneFileFlatDone ==
    /\ main = "exited"
    /\ exit.kind = "ok"
    /\ config.files = 1
    /\ config.max_depth = 0

\* C10 (as the claim states it) -- with num_files = 1 and max_depth = 0 every
\* successful run leaves exactly one file, directly under the root, and no
\* subdirectory.
C10_ExactlyOneFile ==
    OneFileFlatDone =>
        /\ Cardinality(Files) = 1
        /\ \A f \in Files : Len(f) = 1
        /\ Dirs = {}

\* C10 (amended) -- with num_files = 1 and max_depth = 0 every successful run
\* leaves no subdirectory and only files directly under the root, created by
\* the root task alone; their number is the count the root task sampled
\* around 1, which is the file count the run reports, and may differ from 1.
C10_FlatSampledFiles ==
    OneFileFlatDone =>
        /\ Dirs = {}
        /\ Nodes = {Root}
        /\ \A f \in Files : Len(f) = 1
        /\ Cardinality(Files) = tasks[Root].num_files
        /\ exit.stats = [files |-> Cardinality(Files), dirs |-> 0]

\* Such a run has ended with two files under the root.
C10_Witness ==
    /\ OneFileFlatDone
    /\ Cardinality(Files) = 2
    /\ exit.stats.files = 2

\* C2 -- Reproducibility: a second run of the same options (the same entropy
\* among them) on an empty root that ends with statistics has left the tree
\* the first run left: the same directories and files at every node, however
\* the tasks of either run were scheduled.
C2_Reproducible ==
    (run = 2 /\ main = "exited" /\ exit.kind = "ok") => fs = first

\* C3 -- Exact file count: under files_exact every run that ends with
\* statistics has created exactly num_files plain files in the whole tree,
\* and reports that many, for every combination of num_files, ratio and max
\* depth that validation accepts, max_depth = 0 and ratio = num_files
\* included.
C3_ExactFileCount ==
    (main = "exited" /\ exit.kind = "ok") =>
        /\ Cardinality(Files) = config.files
        /\ exit.stats.files = config.files

\* A run under files_exact has ended with statistics for a tree of several
\* nodes in which a node below the root holds files and some node's count is
\* not the count it sampled.
C3_Witness ==
    /\ main = "exited"
    /\ exit.kind = "ok"
    /\ config.files >= 2
    /\ Cardinality(Files) = config.files
    /\ \E n \in Nodes : n # Root /\ tasks[n].num_files > 0
    /\ \E n \in Nodes :
          /\ "files_budget" \in DOMAIN tasks[n].state
          /\ tasks[n].num_files #
                num_to_generate(tasks[n].state.files_per_dir, from_seed(tasks[n].state.seed))


\* The dense scenario: a depth of at least 1 and a ratio equal to the number
\* of files (files_per_dir is the ratio as f64).
DenseConfigured ==
    /\ config.files > 0
    /\ config.max_depth >= 1
    /\ config.files_per_dir = config.files * Scale

\* C11 -- Dense scenario: with the ratio equal to the target number of files
\* and a depth of at least 1, dirs_per_dir is nearer to 0 than to 1 and every
\* file that exists lies directly in the root.
C11_DenseAllInRoot ==
    DenseConfigured =>
        /\ 2 * config.dirs_per_dir < Scale
        /\ \A f \in Files : Len(f) = 1


\* C12 -- A root that does not exist is created and a root that exists and is
\* empty is accepted: generate() called on such a root leaves the root
\* directory in place unless create_dir_all itself was failed, it returns
\* IOERR only when the environment failed create_dir_all or read_dir, it
\* returns DATAERR only for a ratio above the number of files, and otherwise
\* the generator is started; a run that ended well has its root directory.
C12_RootCreatedOrAccepted ==
    [][ /\ (main = "start" /\ EntryCount(fs, <<>>) = 0) =>
             /\ faults' = faults => <<>> \in fs'
             /\ (main' = "exited" /\ exit'.code = IOERR) => faults' = faults + 1
             /\ (main' = "exited" /\ exit'.code = DATAERR) =>
                   (options.max_depth # 0 /\ ratio_too_large(options))
             /\ (faults' = faults /\ ~(options.max_depth # 0 /\ ratio_too_large(options))) =>
                   (main' = "running" /\ Root \in DOMAIN tasks')
        /\ (main' = "exited" /\ exit'.kind = "ok") => <<>> \in fs'
      ]_vars

\* A run on an absent or empty root has ended well with nothing failed: the
\* root directory exists and holds what the run created.
C12_Witness ==
    /\ main = "exited"
    /\ exit.kind = "ok"
    /\ faults = 0
    /\ <<>> \in fs
    /\ EntryCount(fs, <<>>) > 0


C14_NoShortCircuit ==
    \A n \in Nodes :
        (tasks[n].pc = "done" /\ tasks[n].result.kind = "err") =>
            \A c \in Children(n) : tasks[c].pc = "done"


\* The sum of the statistics that the tasks of S returned.
RECURSIVE SumResults(_)
SumResults(S) ==
    IF S = {} THEN NoStats
    ELSE LET c == CHOOSE x \in S : TRUE
             rest == SumResults(S \ {c})
         IN  [files |-> tasks[c].result.stats.files + rest.files,
              dirs |-> tasks[c].result.stats.dirs + rest.dirs]

\* C15 -- Await-all barrier: a node that has returned statistics has spawned
\* a child for every subdirectory it sampled, every one of these children has
\* returned statistics, and the node's statistics are its own two counts plus
\* what each child returned, each child counted once.
C15_AwaitAllBarrier ==
    \A n \in Nodes :
        tasks[n].result.kind = "ok" =>
            /\ tasks[n].pc = "done"
            /\ Cardinality(Children(n)) = tasks[n].num_dirs
            /\ \A c \in Children(n) : tasks[c].pc = "done" /\ tasks[c].result.kind = "ok"
            /\ tasks[n].result.stats.files =
                  tasks[n].num_files + SumResults(Children(n)).files
            /\ tasks[n].result.stats.dirs =
                  tasks[n].num_dirs + SumResults(Children(n)).dirs

\* A node has returned the merged statistics of itself and of two children
\* that both created files.
C15_Witness ==
    \E n \in Nodes :
        /\ tasks[n].result.kind = "ok"
        /\ Cardinality(Children(n)) = 2
        /\ \A c \in Children(n) : tasks[c].result.stats.files > 0
        /\ tasks[n].result.stats.dirs = 2


\* C16 -- A child's directory precedes the child: the directory of every task
\* that exists has been created, every path that exists lies in a directory
\* that exists, and no creation of a directory or file is refused unless the
\* environment failed it (no task writes below a path that is not there).
C16_DirectoryBeforeChild ==
    /\ \A n \in Nodes : DirPath(n) \in fs
    /\ \A p \in fs : p # <<>> => (Parent(p) \in fs /\ IsDirEntry(Parent(p)))
    /\ \A n \in Nodes :
          (tasks[n].closure = "running" /\ tasks[n].dirs_done = tasks[n].num_dirs) =>
              \A i \in 0 .. (tasks[n].num_files - 1) :
                  file_create_ok(fs, Join(DirPath(n), FileName(i)))
    /\ (\E n \in Nodes : tasks[n].closure = IOERR) => faults > 0

\* A task two levels below the root has created a file in its directory.
C16_Witness ==
    \E n \in Nodes :
        /\ Len(n) = 2
        /\ tasks[n].files_done > 0
        /\ Join(DirPath(n), FileName(0)) \in fs


\* The number of directories and files the tasks of S have created.
RECURSIVE Created(_)
Created(S) ==
    IF S = {} THEN 0
    ELSE LET n == CHOOSE x \in S : TRUE
         IN  tasks[n].dirs_done + tasks[n].files_done + Created(S \ {n})

\* The paths task n has written: "<i>.dir" and "<i>" below its own directory.
Written(n) ==
    {Join(DirPath(n), DirName(i)) : i \in 0 .. (tasks[n].dirs_done - 1)}
        \cup {Join(DirPath(n), FileName(i)) : i \in 0 .. (tasks[n].files_done - 1)}

\* C17 -- Path disjointness: once the generator runs, every creation made a
\* path that was not there (the paths below the root are as many as the
\* creations the tasks have done), each task has written as many paths as it
\* has done creations, all directly under its own directory, and the paths
\* written by two different tasks are disjoint.
C17_PathDisjointness ==
    Nodes # {} =>
        /\ Cardinality(fs \ {<<>>}) = Created(Nodes)
        /\ fs \ {<<>>} = UNION {Written(n) : n \in Nodes}
        /\ \A n \in Nodes :
              /\ Cardinality(Written(n)) = tasks[n].dirs_done + tasks[n].files_done
              /\ \A p \in Written(n) : Parent(p) = DirPath(n)
        /\ \A n, m \in Nodes : n # m => Written(n) \cap Written(m) = {}

\* Three tasks have each created a file "0"; one of them has also created the
\* directory "0.dir".
C17_Witness ==
    /\ Cardinality(Nodes) = 3
    /\ \A n \in Nodes : Join(DirPath(n), FileName(0)) \in fs
    /\ \E n \in Nodes : Join(DirPath(n), DirName(0)) \in fs


\* The stream of a task's generator after it has sampled its two counts and
\* drawn the seeds of its first i children.
RECURSIVE AfterChildren(_, _)
AfterChildren(seed, i) ==
    IF i = 0 THEN next_u32(next_u32(from_seed(seed)))
    ELSE AfterNextSeed(AfterChildren(seed, i - 1))

\* The seed of the i-th child as the four words the parent draws for it.
ChildSeed(seed, i) == SeedOfWords(AfterChildren(seed, i))

\* C18 -- Seed propagation: the seed of the i-th child of a node is the one
\* the parent's stream yields for ordinal i, a function of the parent's seed
\* and of i alone, whatever the order in which the tasks run.
C18_SeedFunctionOfParent ==
    \A c \in Nodes :
        c # Root => tasks[c].state.seed = ChildSeed(tasks[Parent(c)].state.seed, c[Len(c)])


\* The GeneratorStats values the state holds.
StatsSeen ==
    {NoStats, exit.stats}
        \cup {tasks[n].stats : n \in Nodes}
        \cup {tasks[n].result.stats : n \in Nodes}

\* The tasks of the subtree of n.
Subtree(n) == {m \in Nodes : Len(m) >= Len(n) /\ SubSeq(m, 1, Len(n)) = n}

\* The sum of the counts the tasks of S sampled for themselves.
RECURSIVE OwnCounts(_)
OwnCounts(S) ==
    IF S = {} THEN NoStats
    ELSE LET m == CHOOSE x \in S : TRUE
             rest == OwnCounts(S \ {m})
         IN  [files |-> tasks[m].num_files + rest.files,
              dirs |-> tasks[m].num_dirs + rest.dirs]

\* C19 -- Stats merge is order-independent: add_assign is the field-wise sum,
\* associative and commutative with (0, 0) as its identity on the statistics
\* the run holds, and the statistics a task returns are the sum of the own
\* counts of the tasks of its subtree, whatever the order in which the
\* children's results were taken.
C19_MergeOrderIndependent ==
    /\ \A a, b \in StatsSeen :
          /\ add_assign(a, b) = [files |-> a.files + b.files, dirs |-> a.dirs + b.dirs]
          /\ add_assign(a, b) = add_assign(b, a)
          /\ add_assign(a, NoStats) = a
          /\ add_assign(NoStats, a) = a
          /\ \A c \in StatsSeen :
                add_assign(add_assign(a, b), c) = add_assign(a, add_assign(b, c))
    /\ \A n \in Nodes :
          tasks[n].result.kind = "ok" => tasks[n].result.stats = OwnCounts(Subtree(n))
    /\ (main = "exited" /\ exit.kind = "ok") => exit.stats = OwnCounts(Nodes)

\* The root has merged the result of its second child, which created files,
\* ahead of the result of its first child, which is still to be taken.
C19_Witness ==
    /\ Root \in Nodes
    /\ tasks[Root].pc = "awaiting"
    /\ tasks[Root].dir_tasks = {0}
    /\ <<1>> \in Nodes
    /\ tasks[<<1>>].result.stats.files > 0
    /\ tasks[Root].stats =
          add_assign([files |-> tasks[Root].num_files, dirs |-> tasks[Root].num_dirs],
                     tasks[<<1>>].result.stats)


\* C20 -- Reported stats match what was created: when the root task has
\* returned statistics, and when generate() has returned them, files is the
\* number of files that exist in the tree and dirs the number of directories
\* below the root.
C20_StatsMatchCreated ==
    /\ (Root \in Nodes /\ tasks[Root].result.kind = "ok") =>
          /\ tasks[Root].result.stats.files = Cardinality(Files)
          /\ tasks[Root].result.stats.dirs = Cardinality(Dirs)
    /\ (main = "exited" /\ exit.kind = "ok") =>
          /\ exit.stats.files = Cardinality(Files)
          /\ exit.stats.dirs = Cardinality(Dirs)

\* generate() has returned the statistics of a tree with a subdirectory and
\* with files both in the root and below it.
C20_Witness ==
    /\ main = "exited"
    /\ exit.kind = "ok"
    /\ exit.stats.dirs >= 1
    /\ exit.stats.files >= 2
    /\ \E f \in Files : Len(f) = 1
    /\ \E f \in Files : Len(f) >= 2


\* The tree has grown to MaxNodes tasks and a closure has a directory left to
\* create: the run goes beyond what is explored.
AtNodeBound ==
    /\ Cardinality(Nodes) >= MaxNodes
    /\ \E n \in Nodes :
          /\ tasks[n].closure = "running"
          /\ tasks[n].dirs_done < tasks[n].num_dirs

\* C21 -- Termination: under fair scheduling generate() returns in the end, with
\* statistics or with an error, in every run that stays within MaxNodes
\* tasks; and when it has returned statistics every task of the tree is done
\* with statistics of its own, none is pending.
C21_Termination ==
    /\ <>(main = "exited" \/ AtNodeBound)
    /\ [](( main = "exited" /\ exit.kind = "ok") =>
             \A n \in Nodes :
                 /\ tasks[n].pc = "done"
                 /\ tasks[n].result.kind = "ok"
                 /\ tasks[n].dir_tasks = {})

\* generate() has returned the statistics of a tree of three tasks, all done.
C21_Witness ==
    /\ main = "exited"
    /\ exit.kind = "ok"
    /\ Cardinality(Nodes) = 3
    /\ \A n \in Nodes : tasks[n].pc = "done"


\* C22 -- An I/O error is not retried and aborts the node: from the step in
\* which a creation failed at a node, the node's closure stays failed, the
\* node creates no further directory or file (its counts and the entries of
\* its directory stay as they are), it spawns no further child, and when the
\* node returns, its result is the IOERR error.
C22_IoErrorAborts ==
    [][ \A n \in Nodes :
          tasks[n].closure = IOERR =>
              /\ n \in DOMAIN tasks'
              /\ tasks'[n].closure = IOERR
              /\ tasks'[n].dirs_done = tasks[n].dirs_done
              /\ tasks'[n].files_done = tasks[n].files_done
              /\ {p \in fs' : p # <<>> /\ Parent(p) = DirPath(n)}
                    = {p \in fs : p # <<>> /\ Parent(p) = DirPath(n)}
              /\ {m \in DOMAIN tasks' : m # <<>> /\ Parent(m) = n} = Children(n)
              /\ tasks[n].pc = "done" => tasks[n].result = ErrResult(IOERR)
              /\ tasks'[n].pc = "done" => tasks'[n].result = ErrResult(IOERR)
      ]_vars

\* A node that had created a directory and spawned its child failed to create
\* a file, and has returned the IOERR error with files left uncreated.
C22_Witness ==
    \E n \in Nodes :
        /\ tasks[n].closure = IOERR
        /\ tasks[n].dirs_done >= 1
        /\ tasks[n].files_done < tasks[n].num_files
        /\ tasks[n].pc = "done"
        /\ tasks[n].result = ErrResult(IOERR)


\* C23 -- Depth-0 derivation: whenever validated_options resolves options of
\* max depth 0 into a configuration, whatever their ratio, the configuration
\* has dirs_per_dir 0 and files_per_dir equal to the number of files, and so
\* has the state the root task is started with.
C23_DepthZeroDerivation ==
    [][ (main = "start" /\ options.max_depth = 0 /\ config' # NoConfiguration) =>
            /\ config'.dirs_per_dir = 0
            /\ config'.files_per_dir = options.num_files * Scale
            /\ config'.files = options.num_files
            /\ config'.max_depth = 0
            /\ main' = "running" =>
                  /\ tasks'[Root].state.dirs_per_dir = 0
                  /\ tasks'[Root].state.files_per_dir = options.num_files * Scale
                  /\ tasks'[Root].state.max_depth = 0
      ]_vars

\* The generator runs on a configuration resolved for two files at depth 0.
C23_Witness ==
    /\ main = "running"
    /\ config.max_depth = 0
    /\ config.files = 2
    /\ config.files_per_dir = 2 * Scale
    /\ config.dirs_per_dir = 0
    /\ tasks[Root].state.files_per_dir = 2 * Scale


\* C24 -- Default ratio: when generate() is given no ratio and a depth of at
\* least 1, the ratio is the whole thousands of the number of files, at least
\* 1, and never above the number of files: the configuration resolved has it
\* as files_per_dir, and the options are refused with DATAERR only for a root
\* that is not empty.
C24_DefaultRatio ==
    [][ (main = "start" /\ options.file_to_dir_ratio = None /\ options.max_depth >= 1) =>
            /\ config' # NoConfiguration =>
                  /\ config'.files_per_dir = Max(options.num_files \div 1000, 1) * Scale
                  /\ config'.files_per_dir <= options.num_files * Scale
            /\ (main' = "exited" /\ exit'.code = DATAERR) => EntryCount(fs, <<>>) # 0
            /\ (faults' = faults /\ EntryCount(fs, <<>>) = 0) => main' = "running"
      ]_vars

\* The generator is started for 2,999 files with two files a directory.
C24_Witness ==
    /\ main = "running"
    /\ config.max_depth >= 1
    /\ config.files = 3 * DefaultRatioDivisor - 1
    /\ config.files_per_dir = 2 * Scale


\* C25 -- Child state derivation: the state a task is spawned with, other than
\* the root's, has its parent's remaining depth less 1, the parent's
\* files_per_dir and dirs_per_dir, a seed next_seed draws from the parent's
\* generator at that point, and as its directory the one the parent has just
\* created under its own; the state of a task that exists, the parent's
\* included, is never changed.
C25_ChildStateDerivation ==
    [][ \A n \in DOMAIN tasks' :
          /\ n \in Nodes => tasks'[n].state = tasks[n].state
          /\ (n \notin Nodes /\ n # Root) =>
                /\ Parent(n) \in Nodes
                /\ tasks'[n].state.max_depth = tasks[Parent(n)].state.max_depth - 1
                /\ tasks'[n].state.files_per_dir = tasks[Parent(n)].state.files_per_dir
                /\ tasks'[n].state.dirs_per_dir = tasks[Parent(n)].state.dirs_per_dir
                /\ tasks'[n].state.seed \in next_seed(tasks[Parent(n)].random)
                /\ DirPath(n) = Join(DirPath(Parent(n)), DirName(n[Len(n)]))
                /\ DirPath(n) \in fs' \ fs
      ]_vars

\* A task two levels below the root holds the root's distribution parameters
\* and the root's depth less 2.
C25_Witness ==
    \E n \in Nodes :
        /\ Len(n) = 2
        /\ tasks[n].state.max_depth = tasks[Root].state.max_depth - 2
        /\ tasks[n].state.files_per_dir = tasks[Root].state.files_per_dir
        /\ tasks[n].state.dirs_per_dir = tasks[Root].state.dirs_per_dir
        /\ tasks[n].state.dirs_per_dir > 0

\* C26 -- The depth decrement never underflows: the remaining depth of every
\* task lies in 0 .. max_depth, and a task that has a child, or has sampled
\* a directory to create, has a remaining depth of at least 1.
C26_DepthNeverUnderflows ==
    \A n \in Nodes :
        /\ tasks[n].state.max_depth \in 0 .. config.max_depth
        /\ (Children(n) # {} \/ tasks[n].num_dirs > 0) => tasks[n].state.max_depth >= 1

\* A task at remaining depth 0 was derived from a parent at remaining depth 1
\* and has sampled its counts: no directory.
C26_Witness ==
    \E n \in Nodes :
        /\ n # Root
        /\ tasks[n].state.max_depth = 0
        /\ tasks[Parent(n)].state.max_depth = 1
        /\ tasks[n].pc # "spawned"
        /\ tasks[n].num_dirs = 0
        /\ tasks[n].state.dirs_per_dir > 0


\* The normal sample of mean `mean` the first word after state s stands for,
\* in fifths of fixed-point units.
DrawOf(mean, s) == mean * (5 + StdNormal(next_u32(s)))

\* count is drawn rounded to the nearest integer, 0 for a negative draw.
RoundedClamped(count, drawn) ==
    /\ count >= 0
    /\ drawn <= 0 => count = 0
    /\ drawn > 0 =>
          /\ 2 * (5 * Scale * count - drawn) <= 5 * Scale
          /\ 2 * (drawn - 5 * Scale * count) <= 5 * Scale

\* C27 -- Sampled counts are never negative: the numbers of files and of
\* directories a task has sampled are its two draws rounded to the nearest
\* integer, 0 when the draw is negative (and 0 directories at remaining
\* depth 0); unless the environment failed something no task fails.
C27_CountsNeverNegative ==
    /\ \A n \in Nodes :
          tasks[n].closure # "none" =>
              LET r0 == from_seed(tasks[n].state.seed)
              IN  /\ RoundedClamped(tasks[n].num_files,
                                    DrawOf(tasks[n].state.files_per_dir, r0))
                  /\ IF tasks[n].state.max_depth = 0
                     THEN tasks[n].num_dirs = 0
                     ELSE RoundedClamped(tasks[n].num_dirs,
                                         DrawOf(tasks[n].state.dirs_per_dir, next_u32(r0)))
    /\ faults = 0 => \A n \in Nodes : ~Failed(n)

\* A task whose draw for the files was -0.5 or less has created no file and
\* has returned statistics.
C27_Witness ==
    \E n \in Nodes :
        /\ tasks[n].pc = "done"
        /\ tasks[n].result.kind = "ok"
        /\ 2 * DrawOf(tasks[n].state.files_per_dir, from_seed(tasks[n].state.seed))
              <= -(5 * Scale)
        /\ tasks[n].num_files = 0


\* The generator a task builds from its own seed, after its one or two draws.
OwnStream(t) ==
    IF t.state.max_depth = 0
    THEN next_u32(from_seed(t.state.seed))
    ELSE next_u32(next_u32(from_seed(t.state.seed)))

\* C28 -- No shared generator state: a task's generator changes only in a
\* step of that task (its sampling, or the creation of one of its own
\* directories), no step changes the generators of two tasks, and a task
\* that samples builds its generator from the seed in its own state, whatever
\* its parent's or a sibling's generator holds.
C28_NoSharedGenerator ==
    [][ /\ \A n \in Nodes :
              (n \in DOMAIN tasks' /\ tasks'[n].random # tasks[n].random) =>
                  \/ tasks[n].pc = "spawned" /\ tasks'[n].pc = "blocking"
                  \/ tasks'[n].dirs_done = tasks[n].dirs_done + 1
        /\ \A n, m \in Nodes :
              ( /\ n \in DOMAIN tasks' /\ m \in DOMAIN tasks'
                /\ tasks'[n].random # tasks[n].random
                /\ tasks'[m].random # tasks[m].random ) => n = m
        /\ \A n \in Nodes :
              (n \in DOMAIN tasks' /\ tasks[n].pc = "spawned" /\ tasks'[n].pc = "blocking") =>
                  tasks'[n].random = OwnStream(tasks[n])
      ]_vars

\* A parent whose closure is still running and its child have each advanced
\* a generator of their own, and the two generators differ.
C28_Witness ==
    \E c \in Nodes :
        /\ c # Root
        /\ tasks[Parent(c)].closure = "running"
        /\ tasks[c].closure = "running"
        /\ tasks[c].random = OwnStream(tasks[c])
        /\ tasks[c].random # tasks[Parent(c)].random


\* The tasks whose blocking closure is executing.
Executing == {n \in Nodes : ClosureRunning(tasks[n])}

\* C29 -- Bounded worker pool: the closures that create directories and files
\* and execute at the same time are never more than the hardware parallelism.
C29_BoundedWorkerPool == Cardinality(Executing) <= AvailableParallelism

====
